---- MODULE Spec2Model ----
(***************************************************************************)
(* Model of the schedule generation engine of usc-schedule-builder         *)
(* (src/app.py): the pairwise time-conflict predicate has_time_conflict    *)
(* and the search generate_diverse_schedules.                              *)
(*                                                                         *)
(* A time field of a section is a record [kind, h, m]: kind "none" is an   *)
(* absent / None / empty value, kind "TBA" is the literal string 'TBA',    *)
(* kind "hm" is a string 'HH:MM'.  A day field is a sequence of one-letter *)
(* day symbols (the characters of the day string), <<>> when empty.        *)
(* Results of has_time_conflict are "True", "False" or "TypeError" (the    *)
(* exception Python raises when a None time is compared).                  *)
(***************************************************************************)
EXTENDS Integers, Sequences, FiniteSets, TLC

VARIABLES
    \* ---- generate_diverse_schedules ----
    courses_data,               \* input: the list of courses (course ids)
    offered,                    \* input: ids of the sections the courses list
    max_schedules,              \* input: the cap
    pc,                         \* position in the function
    raised,                     \* exception that left the function, or "none"
    all_lecture_combinations,   \* shuffled product of the lecture lists
    lecture_index,
    lecture_combo,
    variation,                  \* iterations of range(3) already started
    current_schedule,
    schedule_valid,
    course_pos,                 \* position in course_sections.items()
    type_pos,                   \* position in ['Dis', 'Lab', 'Qz']
    unplaced,                   \* <<course, type>> reported "Could not find valid"
    all_valid_schedules,
    seen_combinations,
    \* ---- history of one run of generate_diverse_schedules ----
    pull_count,                 \* per position of the shuffled list: times pulled
    attempt_count,              \* per position: variations started on it
    \* ---- generate_schedules (the request boundary) ----
    course_ids,                 \* the "courses" list of the request
    req_pc,                     \* position in the request handler
    status,                     \* HTTP status of the response, 0 before it
    count,                      \* "count" of the response body
    \* ---- has_time_conflict evaluated on its own ----
    section1, section2,         \* the two argument sections
    result12, result21          \* has_time_conflict(section1, section2) and swapped

gen_vars == <<courses_data, offered, max_schedules, pc, raised,
              all_lecture_combinations, lecture_index, lecture_combo,
              variation, current_schedule, schedule_valid, course_pos,
              type_pos, unplaced, all_valid_schedules, seen_combinations>>

hist_vars == <<pull_count, attempt_count>>

req_vars == <<course_ids, req_pc, status, count>>

hc_vars == <<section1, section2, result12, result21>>

vars == <<courses_data, offered, max_schedules, pc, raised,
          all_lecture_combinations, lecture_index, lecture_combo,
          variation, current_schedule, schedule_valid, course_pos,
          type_pos, unplaced, all_valid_schedules, seen_combinations,
          pull_count, attempt_count, course_ids, req_pc, status, count,
          section1, section2, result12, result21>>

----------------------------------------------------------------------------
(* Bounds *)

\* largest cap max_schedules drawn for the general inputs
MaxSchedules == 2

\* hours of the time values drawn for has_time_conflict are 9..MaxHour
MaxHour == 10

\* the pulls of one position of the shuffled list are counted up to this
MaxPullCount == 2

----------------------------------------------------------------------------
(* Time and day values *)

NoTime == [kind |-> "none", h |-> 0, m |-> 0]

TBATime == [kind |-> "TBA", h |-> 0, m |-> 0]

HM(hour, minute) == [kind |-> "hm", h |-> hour, m |-> minute]

\* a parsed time: Python None, or a datetime.time with hour and minute
None == [isNone |-> TRUE, hour |-> 0, minute |-> 0]

\* parse_time: '' / None / 'TBA' give None, 'HH:MM' gives time(HH, MM)
parse_time(time_str) ==
    IF time_str.kind = "none" \/ time_str.kind = "TBA"
    THEN None
    ELSE [isNone |-> FALSE, hour |-> time_str.h, minute |-> time_str.m]

\* datetime.time ordering: by hour, then by minute
TimeLe(t1, t2) ==
    \/ t1.hour < t2.hour
    \/ t1.hour = t2.hour /\ t1.minute <= t2.minute

DaySymbols == {"M", "T", "W", "H", "F"}

day_map == [d \in DaySymbols |->
              CASE d = "M" -> "Monday"
                [] d = "T" -> "Tuesday"
                [] d = "W" -> "Wednesday"
                [] d = "H" -> "Thursday"
                [] d = "F" -> "Friday"]

\* parse_days: [] for an empty day field, else the mapped day names in order
parse_days(day) ==
    IF day = <<>> THEN <<>>
    ELSE [i \in 1..Len(day) |-> day_map[day[i]]]

Range(f) == {f[x] : x \in DOMAIN f}

\* Python truthiness of section.get('start_time'): None and '' are falsy,
\* every non-empty string (also 'TBA') is truthy
Truthy(time_str) == time_str.kind # "none"

\* has_time_conflict with the second comparison dropped
has_time_conflict_oneway(s1, s2) ==
    IF ~Truthy(s1.start_time) \/ ~Truthy(s2.start_time) THEN "False"
    ELSE IF Range(parse_days(s1.day)) \cap Range(parse_days(s2.day)) = {}
    THEN "False"
    ELSE IF parse_time(s1.start_time).isNone \/ parse_time(s2.end_time).isNone
    THEN "TypeError"
    ELSE IF TimeLe(parse_time(s1.start_time), parse_time(s2.end_time))
    THEN "True" ELSE "False"

\* has_time_conflict: the three early exits, then
\* (time1_start <= time2_end) and (time2_start <= time1_end), evaluated left
\* to right with short circuit; comparing a None time raises TypeError
has_time_conflict(s1, s2) ==
    IF ~Truthy(s1.start_time) \/ ~Truthy(s2.start_time) THEN "False"
    ELSE
      LET days1 == parse_days(s1.day)
          days2 == parse_days(s2.day)
          common_days == Range(days1) \cap Range(days2)
      IN  IF common_days = {} THEN "False"
          ELSE
            LET time1_start == parse_time(s1.start_time)
                time1_end   == parse_time(s1.end_time)
                time2_start == parse_time(s2.start_time)
                time2_end   == parse_time(s2.end_time)
            IN  IF time1_start.isNone \/ time2_end.isNone THEN "TypeError"
                ELSE IF ~TimeLe(time1_start, time2_end) THEN "False"
                ELSE IF time2_start.isNone \/ time1_end.isNone THEN "TypeError"
                ELSE IF TimeLe(time2_start, time1_end) THEN "True"
                ELSE "False"

----------------------------------------------------------------------------
(* has_time_conflict on its own: the argument space and its evaluation *)

Hours == 9..MaxHour

TimeValues == {HM(hh, mm) : hh \in Hours, mm \in {0, 50}}

DayValues == {<<>>, <<"M">>, <<"W">>, <<"M", "W">>, <<"W", "F">>}

\* sections the data model admits: both times absent, both 'TBA', or both
\* 'HH:MM' with end_time >= start_time
WellFormedSections ==
    {s \in [day : DayValues,
            start_time : TimeValues \cup {NoTime, TBATime},
            end_time : TimeValues \cup {NoTime, TBATime}] :
        \/ s.start_time = NoTime /\ s.end_time = NoTime
        \/ s.start_time = TBATime /\ s.end_time = TBATime
        \/ /\ s.start_time.kind = "hm" /\ s.end_time.kind = "hm"
           /\ TimeLe(parse_time(s.start_time), parse_time(s.end_time))}

NoSection == [day |-> <<>>, start_time |-> NoTime, end_time |-> NoTime]

----------------------------------------------------------------------------
(* The catalog the inputs of generate_diverse_schedules are drawn from *)

Sec(i, c, ty, d, st, et) ==
    [id |-> i, course_id |-> c, type |-> ty, day |-> d,
     start_time |-> st, end_time |-> et]

\* Sections 1, 2, 3 and 6 are the sections of the specification's example
\* scenario; 4 touches lecture 1 at 09:50; 5 overlaps discussion 3; 7 overlaps
\* lecture 1; 8 has no times and no days; 9 has literal 'TBA' times on Thursday.
\* Sections 10 and 11 carry malformed times, which nothing between the cache
\* and the generator rejects: 10 ends before it starts, 11 has a start_time
\* without an end_time.
Catalog ==
    <<Sec(1, "A", "Lec", <<"M", "W", "F">>, HM(9, 0),   HM(9, 50)),
      Sec(2, "A", "Lec", <<"T", "H">>,      HM(10, 0),  HM(11, 15)),
      Sec(3, "A", "Dis", <<"F">>,           HM(13, 0),  HM(13, 50)),
      Sec(4, "A", "Dis", <<"M">>,           HM(9, 50),  HM(10, 40)),
      Sec(5, "A", "Lab", <<"F">>,           HM(13, 30), HM(14, 20)),
      Sec(6, "B", "Lec", <<"M", "W">>,      HM(11, 0),  HM(12, 15)),
      Sec(7, "B", "Lec", <<"M", "W">>,      HM(9, 0),   HM(9, 50)),
      Sec(8, "B", "Dis", <<>>,              NoTime,     NoTime),
      Sec(9, "B", "Qz",  <<"H">>,           TBATime,    TBATime),
      Sec(10, "A", "Dis", <<"W">>,          HM(15, 0),  HM(14, 0)),
      Sec(11, "B", "Dis", <<"M">>,          HM(12, 0),  NoTime)>>

\* times as the registrar's data carries them: both absent, both 'TBA', or a
\* start and an end with the start not after the end
WellTimed(s) ==
    \/ s.start_time = NoTime /\ s.end_time = NoTime
    \/ s.start_time = TBATime /\ s.end_time = TBATime
    \/ /\ s.start_time.kind = "hm" /\ s.end_time.kind = "hm"
       /\ TimeLe(parse_time(s.start_time), parse_time(s.end_time))

SectionIds == {i \in DOMAIN Catalog : WellTimed(Catalog[i])}

MalformedIds == DOMAIN Catalog \ SectionIds

\* the course lists of a request: none, one or two courses, a course possibly
\* requested twice
CourseLists ==
    {<<>>, <<"A">>, <<"B">>, <<"A", "B">>, <<"B", "A">>, <<"A", "A">>}

\* the example scenario of the specification
ExampleCourses == <<"A", "B">>

ExampleOffered == {1, 2, 3, 6}

----------------------------------------------------------------------------
(* Helpers of generate_diverse_schedules *)

\* the ascending sequence of a set of section ids: the order in which a
\* course lists its sections
RECURSIVE SetToSeq(_)
SetToSeq(S) ==
    IF S = {} THEN <<>>
    ELSE LET x == CHOOSE y \in S : \A z \in S : y <= z
         IN  <<x>> \o SetToSeq(S \ {x})

\* get_sections_by_type(course)[section_type], with course_id stamped
\* (sections.get(section_type, []))
SectionsByType(off, course, section_type) ==
    SetToSeq({i \in off : /\ Catalog[i].course_id = course
                          /\ Catalog[i].type = section_type})

\* the keys of course_sections in insertion order: the courses of
\* courses_data, a repeated course keeping its first place
RECURSIVE CourseKeys(_)
CourseKeys(cs) ==
    IF cs = <<>> THEN <<>>
    ELSE LET rest == CourseKeys(SubSeq(cs, 1, Len(cs) - 1))
             c == cs[Len(cs)]
         IN  IF c \in Range(rest) THEN rest ELSE Append(rest, c)

\* lecture_combinations: one list of Lec sections per entry of courses_data
LectureLists(cs, off) ==
    [k \in 1..Len(cs) |-> SectionsByType(off, cs[k], "Lec")]

\* itertools.product(*lists) as a list, in its order (last list fastest);
\* the product of no lists is [()], a product with an empty list is []
RECURSIVE Product(_)
Product(lists) ==
    IF lists = <<>> THEN << <<>> >>
    ELSE LET heads == Product(SubSeq(lists, 1, Len(lists) - 1))
             last == lists[Len(lists)]
         IN  [n \in 1..(Len(heads) * Len(last)) |->
                Append(heads[((n - 1) \div Len(last)) + 1],
                       last[((n - 1) % Len(last)) + 1])]

\* the orders random.shuffle / random.sample can leave a list in
Shuffles(list) ==
    {[k \in 1..Len(list) |-> list[p[k]]] : p \in Permutations(1..Len(list))}

\* the first result other than "False" of has_time_conflict(section, x) for x
\* along list from position k, or "False": any(...) stops at the first True
\* and an exception leaves it
RECURSIVE AnyConflictFrom(_, _, _)
AnyConflictFrom(section, list, k) ==
    IF k > Len(list) THEN "False"
    ELSE LET r == has_time_conflict(Catalog[section], Catalog[list[k]])
         IN  IF r = "False" THEN AnyConflictFrom(section, list, k + 1) ELSE r

\* the check of a section against all but the newest entry of the schedule
ConflictsWithScheduleButLast(section, schedule) ==
    AnyConflictFrom(section, SubSeq(schedule, 1, Len(schedule) - 1), 1)

\* any(has_time_conflict(section, existing) for existing in current_schedule)
ConflictsWithSchedule(section, schedule) ==
    AnyConflictFrom(section, schedule, 1)

\* the lecture check of one combination: for each i the inner loop runs
\* along combo[i+1:] up to its first conflict; the outer loop is not left.
\* "TypeError" if a comparison raises, else "True" / "False" = has_conflict
RECURSIVE LectureCheckFrom(_, _)
LectureCheckFrom(combo, i) ==
    IF i > Len(combo) THEN "False"
    ELSE LET row == AnyConflictFrom(combo[i], SubSeq(combo, i + 1, Len(combo)), 1)
             rest == LectureCheckFrom(combo, i + 1)
         IN  IF row = "TypeError" \/ rest = "TypeError" THEN "TypeError"
             ELSE IF row = "True" \/ rest = "True" THEN "True"
             ELSE "False"

LectureCheck(combo) == LectureCheckFrom(combo, 1)

\* the outcome of the loop over random_sections: <<"added", s>> for the first
\* section that conflicts with nothing, <<"none", 0>> when all conflict,
\* <<"TypeError", 0>> when a check raises first
RECURSIVE FirstFit(_, _, _)
FirstFit(random_sections, schedule, k) ==
    IF k > Len(random_sections) THEN <<"none", 0>>
    ELSE LET r == ConflictsWithSchedule(random_sections[k], schedule)
         IN  IF r = "TypeError" THEN <<"TypeError", 0>>
             ELSE IF r = "False" THEN <<"added", random_sections[k]>>
             ELSE FirstFit(random_sections, schedule, k + 1)

\* tuple(sorted(section['id'] for section in current_schedule)): insertion
\* of each id into the sorted tuple of the ids before it
RECURSIVE SortedIds(_)
SortedIds(schedule) ==
    IF schedule = <<>> THEN <<>>
    ELSE LET rest == SortedIds(SubSeq(schedule, 1, Len(schedule) - 1))
             x == schedule[Len(schedule)]
             n == Cardinality({k \in 1..Len(rest) : rest[k] <= x})
         IN  SubSeq(rest, 1, n) \o <<x>> \o SubSeq(rest, n + 1, Len(rest))

schedule_key(schedule) == SortedIds(schedule)

SecondaryTypes == <<"Dis", "Lab", "Qz">>

\* range(3): the variations tried per lecture combination
Variations == 3

----------------------------------------------------------------------------
(* generate_diverse_schedules as a state machine *)

\* the sections a course list can come with: any of the catalog's sections of
\* the courses it names
InputSpace ==
    {in \in [courses : CourseLists, sections : SUBSET SectionIds,
             cap : 0..MaxSchedules] :
        \A i \in in.sections : Catalog[i].course_id \in Range(in.courses)}

\* no request is being handled: generate_diverse_schedules called directly
ReqIdle ==
    /\ course_ids = <<>>
    /\ req_pc = "none"
    /\ status = 0
    /\ count = 0

HcIdle ==
    /\ section1 = NoSection
    /\ section2 = NoSection
    /\ result12 = "unset"
    /\ result21 = "unset"

\* entry of generate_diverse_schedules: the arguments, and the two empty
\* accumulators
Init ==
    /\ \/ \E in \in InputSpace :
             /\ courses_data = in.courses
             /\ offered = in.sections
             /\ max_schedules = in.cap
       \/ /\ courses_data = ExampleCourses
          /\ offered = ExampleOffered
          /\ max_schedules = 5
    /\ pc = "start"
    /\ raised = "none"
    /\ all_lecture_combinations = <<>>
    /\ lecture_index = 0
    /\ lecture_combo = <<>>
    /\ variation = 0
    /\ current_schedule = <<>>
    /\ schedule_valid = TRUE
    /\ course_pos = 1
    /\ type_pos = 1
    /\ unplaced = {}
    /\ all_valid_schedules = <<>>
    /\ seen_combinations = {}
    /\ pull_count = <<>>
    /\ attempt_count = <<>>
    /\ ReqIdle
    /\ HcIdle

\* course_sections[course][section_type]
course_sections(course, section_type) ==
    SectionsByType(offered, course, section_type)

\* a counter of the run's history raised by one, up to a largest value
CountUp(counter, k, largest) ==
    [counter EXCEPT ![k] = IF @ < largest THEN @ + 1 ELSE @]

\* the position of lecture_combo in the shuffled list: the position before
\* lecture_index, which was advanced cyclically when the combination was taken
PulledPosition ==
    IF lecture_index = 0 THEN Len(all_lecture_combinations) ELSE lecture_index

\* grouping, the product of the lecture lists and its shuffle
Setup ==
    /\ pc = "start"
    /\ all_lecture_combinations' \in
           Shuffles(Product(LectureLists(courses_data, offered)))
    /\ lecture_index' = 0
    /\ pc' = "while"
    /\ UNCHANGED <<courses_data, offered, max_schedules, raised, lecture_combo,
                   variation, current_schedule, schedule_valid, course_pos,
                   type_pos, unplaced, all_valid_schedules, seen_combinations>>
    /\ pull_count' = [k \in DOMAIN all_lecture_combinations' |-> 0]
    /\ attempt_count' = [k \in DOMAIN all_lecture_combinations' |-> 0]
    /\ UNCHANGED req_vars
    /\ UNCHANGED hc_vars

\* while len(all_valid_schedules) < max_schedules
WhileCond(n, cap) == n < cap

\* the cap check of the variation loop with its comparison off by one
CapReachedLate(n, cap) == n > cap

\* if len(all_valid_schedules) >= max_schedules: break
CapReached(n, cap) == n >= cap

\* the membership test of the dedup key answering "new" for every key
IsNewKeyAlways(key, seen) == TRUE

\* if schedule_key not in seen_combinations
IsNewKey(key, seen) == key \notin seen

\* only an unplaced Dis marks the attempt invalid
InvalidatesAttemptDisOnly(section_type) == section_type = "Dis"

\* an unplaced Dis never marks the attempt invalid
InvalidatesAttemptNotDis(section_type) == section_type # "Dis"

\* an unplaced category never marks the attempt invalid
InvalidatesAttemptNever(section_type) == FALSE

\* if not section_added: schedule_valid = False, whatever the section type
InvalidatesAttempt(section_type) == TRUE

\* the loop condition fails: return all_valid_schedules
Return ==
    /\ pc = "while"
    /\ ~WhileCond(Len(all_valid_schedules), max_schedules)
    /\ pc' = "done"
    /\ UNCHANGED <<courses_data, offered, max_schedules, raised,
                   all_lecture_combinations, lecture_index, lecture_combo,
                   variation, current_schedule, schedule_valid, course_pos,
                   type_pos, unplaced, all_valid_schedules, seen_combinations>>
    /\ UNCHANGED hist_vars
    /\ UNCHANGED req_vars
    /\ UNCHANGED hc_vars

\* all_lecture_combinations[lecture_index] on the empty list
RaiseIndexError ==
    /\ pc = "while"
    /\ WhileCond(Len(all_valid_schedules), max_schedules)
    /\ all_lecture_combinations = <<>>
    /\ pc' = "error"
    /\ raised' = "IndexError"
    /\ UNCHANGED <<courses_data, offered, max_schedules,
                   all_lecture_combinations, lecture_index, lecture_combo,
                   variation, current_schedule, schedule_valid, course_pos,
                   type_pos, unplaced, all_valid_schedules, seen_combinations>>
    /\ UNCHANGED hist_vars
    /\ UNCHANGED req_vars
    /\ UNCHANGED hc_vars

\* one pass of the while body up to the variation loop: take the combination
\* at lecture_index, advance the index cyclically, check the lectures
PullCombo ==
    /\ pc = "while"
    /\ WhileCond(Len(all_valid_schedules), max_schedules)
    /\ all_lecture_combinations # <<>>
    /\ LET combo == all_lecture_combinations[lecture_index + 1]
           has_conflict == LectureCheck(combo)
       IN  /\ lecture_combo' = combo
           /\ lecture_index' =
                  (lecture_index + 1) % Len(all_lecture_combinations)
           /\ variation' = 0
           /\ IF has_conflict = "TypeError"
              THEN pc' = "error" /\ raised' = "TypeError"
              ELSE /\ raised' = raised
                   /\ pc' = IF has_conflict = "True" THEN "while" ELSE "for"
    /\ UNCHANGED <<courses_data, offered, max_schedules,
                   all_lecture_combinations, current_schedule, schedule_valid,
                   course_pos, type_pos, unplaced, all_valid_schedules,
                   seen_combinations>>
    /\ pull_count' = CountUp(pull_count, lecture_index + 1, MaxPullCount)
    /\ UNCHANGED attempt_count
    /\ UNCHANGED req_vars
    /\ UNCHANGED hc_vars

\* range(3) is used up: back to the while condition
VariationsDone ==
    /\ pc = "for"
    /\ variation >= Variations
    /\ pc' = "while"
    /\ UNCHANGED <<courses_data, offered, max_schedules, raised,
                   all_lecture_combinations, lecture_index, lecture_combo,
                   variation, current_schedule, schedule_valid, course_pos,
                   type_pos, unplaced, all_valid_schedules, seen_combinations>>
    /\ UNCHANGED hist_vars
    /\ UNCHANGED req_vars
    /\ UNCHANGED hc_vars

\* the cap is reached inside the variation loop: break
BreakAtCap ==
    /\ pc = "for"
    /\ variation < Variations
    /\ CapReached(Len(all_valid_schedules), max_schedules)
    /\ pc' = "while"
    /\ UNCHANGED <<courses_data, offered, max_schedules, raised,
                   all_lecture_combinations, lecture_index, lecture_combo,
                   variation, current_schedule, schedule_valid, course_pos,
                   type_pos, unplaced, all_valid_schedules, seen_combinations>>
    /\ UNCHANGED hist_vars
    /\ UNCHANGED req_vars
    /\ UNCHANGED hc_vars

\* a variation starts: current_schedule = list(lecture_combo)
BeginAttempt ==
    /\ pc = "for"
    /\ variation < Variations
    /\ ~CapReached(Len(all_valid_schedules), max_schedules)
    /\ variation' = variation + 1
    /\ current_schedule' = lecture_combo
    /\ schedule_valid' = TRUE
    /\ course_pos' = 1
    /\ type_pos' = 1
    /\ unplaced' = {}
    /\ pc' = "attach"
    /\ UNCHANGED <<courses_data, offered, max_schedules, raised,
                   all_lecture_combinations, lecture_index, lecture_combo,
                   all_valid_schedules, seen_combinations>>
    /\ attempt_count' = CountUp(attempt_count, PulledPosition, Variations + 1)
    /\ UNCHANGED pull_count
    /\ UNCHANGED req_vars
    /\ UNCHANGED hc_vars

\* one pass of the section_type loop for the course at course_pos
AttachStep ==
    /\ pc = "attach"
    /\ course_pos <= Len(CourseKeys(courses_data))
    /\ LET course_id == CourseKeys(courses_data)[course_pos]
           has_lecture == \E k \in 1..Len(lecture_combo) :
                              lecture_combo[k] \in
                                  Range(course_sections(course_id, "Lec"))
           section_type == SecondaryTypes[type_pos]
           sections == course_sections(course_id, section_type)
           next_type == /\ course_pos' = IF type_pos < Len(SecondaryTypes)
                                          THEN course_pos ELSE course_pos + 1
                        /\ type_pos' = IF type_pos < Len(SecondaryTypes)
                                        THEN type_pos + 1 ELSE 1
           next_course == /\ course_pos' = course_pos + 1
                          /\ type_pos' = 1
       IN  IF ~has_lecture
           THEN /\ next_course
                /\ UNCHANGED <<current_schedule, schedule_valid, unplaced,
                               pc, raised>>
           ELSE IF sections = <<>>
           THEN /\ next_type
                /\ UNCHANGED <<current_schedule, schedule_valid, unplaced,
                               pc, raised>>
           ELSE \E random_sections \in Shuffles(sections) :
                  LET fit == FirstFit(random_sections, current_schedule, 1)
                  IN  IF fit[1] = "TypeError"
                      THEN /\ pc' = "error"
                           /\ raised' = "TypeError"
                           /\ UNCHANGED <<current_schedule, schedule_valid,
                                          unplaced, course_pos, type_pos>>
                      ELSE IF fit[1] = "added"
                      THEN /\ current_schedule' =
                                  Append(current_schedule, fit[2])
                           /\ next_type
                           /\ UNCHANGED <<schedule_valid, unplaced, pc, raised>>
                      ELSE /\ unplaced' =
                                  unplaced \cup {<<course_id, section_type>>}
                           /\ schedule_valid' =
                                  IF InvalidatesAttempt(section_type)
                                  THEN FALSE ELSE schedule_valid
                           /\ next_course
                           /\ UNCHANGED <<current_schedule, pc, raised>>
    /\ UNCHANGED <<courses_data, offered, max_schedules,
                   all_lecture_combinations, lecture_index, lecture_combo,
                   variation, all_valid_schedules, seen_combinations>>
    /\ UNCHANGED hist_vars
    /\ UNCHANGED req_vars
    /\ UNCHANGED hc_vars

\* the course loop is over: a valid schedule with a new key is recorded
EndAttempt ==
    /\ pc = "attach"
    /\ course_pos > Len(CourseKeys(courses_data))
    /\ IF /\ schedule_valid
          /\ IsNewKey(schedule_key(current_schedule), seen_combinations)
       THEN /\ seen_combinations' =
                   seen_combinations \cup {schedule_key(current_schedule)}
            /\ all_valid_schedules' =
                   Append(all_valid_schedules, current_schedule)
       ELSE UNCHANGED <<seen_combinations, all_valid_schedules>>
    /\ pc' = "for"
    /\ UNCHANGED <<courses_data, offered, max_schedules, raised,
                   all_lecture_combinations, lecture_index, lecture_combo,
                   variation, current_schedule, schedule_valid, course_pos,
                   type_pos, unplaced>>
    /\ UNCHANGED hist_vars
    /\ UNCHANGED req_vars
    /\ UNCHANGED hc_vars

Next ==
    \/ Setup
    \/ Return
    \/ RaiseIndexError
    \/ PullCombo
    \/ VariationsDone
    \/ BreakAtCap
    \/ BeginAttempt
    \/ AttachStep
    \/ EndAttempt

Spec == Init /\ [][Next]_vars

\* the example scenario's course list with any part of its sections; the
\* function runs on: a step that stays possible is taken
InitExample ==
    /\ Init
    /\ courses_data = ExampleCourses
    /\ offered \subseteq ExampleOffered

FairSpecExample == InitExample /\ [][Next]_vars /\ WF_vars(Next)

----------------------------------------------------------------------------
(* has_time_conflict applied to a pair of sections, in both orders *)

\* calls on the example's two courses, with sections of the example and one
\* or both of the malformed sections
InitMalformed ==
    /\ courses_data = ExampleCourses
    /\ offered \in {o \in SUBSET (ExampleOffered \cup MalformedIds) :
                        o \cap MalformedIds # {}}
    /\ max_schedules \in 0..MaxSchedules
    /\ pc = "start"
    /\ raised = "none"
    /\ all_lecture_combinations = <<>>
    /\ lecture_index = 0
    /\ lecture_combo = <<>>
    /\ variation = 0
    /\ current_schedule = <<>>
    /\ schedule_valid = TRUE
    /\ course_pos = 1
    /\ type_pos = 1
    /\ unplaced = {}
    /\ all_valid_schedules = <<>>
    /\ seen_combinations = {}
    /\ pull_count = <<>>
    /\ attempt_count = <<>>
    /\ ReqIdle
    /\ HcIdle

SpecMalformed == InitMalformed /\ [][Next]_vars

\* ---------------------------------------------------------------------
\* generate_schedules: the request boundary
\* ---------------------------------------------------------------------

\* max_schedules, left to its default by generate_schedules
DefaultMaxSchedules == 15

\* the ids a request may name: A and B are cached with their sections, X is
\* of a department without a cache entry, Y of a cached department but not in
\* its payload, Z is in the payload without a 'sections' key
RequestCourses == {"A", "B", "X", "Y", "Z"}

\* course_id.split('-')[0]
dept(course_id) == IF course_id = "X" THEN "MATH" ELSE "CSCI"

CachedDepartments == {"CSCI"}

\* cache_entry.payload['courses'] of a cached department
payload_courses(department) == <<"A", "B", "Z">>

\* 'sections' in course_data
HasSectionsKey(course_id) == course_id \in {"A", "B"}

\* one pass of the loop over course_ids: whether course_data is appended
course_data_found(course_id) ==
    /\ dept(course_id) \in CachedDepartments
    /\ course_id \in Range(payload_courses(dept(course_id)))
    /\ HasSectionsKey(course_id)

\* a loop that gives up the whole list at the first course it cannot resolve
schedules_data_all_or_nothing(ids) ==
    IF \A k \in DOMAIN ids : course_data_found(ids[k]) THEN ids ELSE <<>>

\* the loop over course_ids
schedules_data(ids) ==
    SelectSeq(ids, course_data_found)

\* the course lists of a request body
RequestLists ==
    {<<>>} \cup {<<c>> : c \in RequestCourses}
           \cup {<<c, d>> : c \in RequestCourses, d \in RequestCourses}

\* the cached sections of the requests: lectures 1, 6, 7, discussions 3, 4
RequestOffered == SUBSET {1, 3, 4, 6, 7}

InitRequest ==
    /\ course_ids \in RequestLists
    /\ offered \in RequestOffered
    /\ req_pc = "received"
    /\ status = 0
    /\ count = 0
    /\ courses_data = <<>>
    /\ max_schedules = 0
    /\ pc = "idle"
    /\ raised = "none"
    /\ all_lecture_combinations = <<>>
    /\ lecture_index = 0
    /\ lecture_combo = <<>>
    /\ variation = 0
    /\ current_schedule = <<>>
    /\ schedule_valid = TRUE
    /\ course_pos = 1
    /\ type_pos = 1
    /\ unplaced = {}
    /\ all_valid_schedules = <<>>
    /\ seen_combinations = {}
    /\ pull_count = <<>>
    /\ attempt_count = <<>>
    /\ HcIdle

\* if not course_ids: 400
RespondNoCourses ==
    /\ req_pc = "received"
    /\ course_ids = <<>>
    /\ status' = 400
    /\ req_pc' = "responded"
    /\ UNCHANGED <<course_ids, count>>
    /\ UNCHANGED gen_vars
    /\ UNCHANGED hist_vars
    /\ UNCHANGED hc_vars

\* if not schedules_data: 404
RespondNotFound ==
    /\ req_pc = "received"
    /\ course_ids # <<>>
    /\ schedules_data(course_ids) = <<>>
    /\ status' = 404
    /\ req_pc' = "responded"
    /\ UNCHANGED <<course_ids, count>>
    /\ UNCHANGED gen_vars
    /\ UNCHANGED hist_vars
    /\ UNCHANGED hc_vars

\* generate_diverse_schedules(schedules_data) is entered
CallGenerate ==
    /\ req_pc = "received"
    /\ course_ids # <<>>
    /\ schedules_data(course_ids) # <<>>
    /\ courses_data' = schedules_data(course_ids)
    /\ max_schedules' = DefaultMaxSchedules
    /\ pc' = "start"
    /\ req_pc' = "generating"
    /\ UNCHANGED <<offered, raised, all_lecture_combinations, lecture_index,
                   lecture_combo, variation, current_schedule, schedule_valid,
                   course_pos, type_pos, unplaced, all_valid_schedules,
                   seen_combinations>>
    /\ UNCHANGED <<course_ids, status, count>>
    /\ UNCHANGED hist_vars
    /\ UNCHANGED hc_vars

\* a step of generate_diverse_schedules inside the request
GenerateStep ==
    /\ req_pc = "generating"
    /\ Next

\* the call has returned (200 with the count) or raised (except Exception: 500)
Respond ==
    /\ req_pc = "generating"
    /\ pc \in {"done", "error"}
    /\ status' = IF pc = "done" THEN 200 ELSE 500
    /\ count' = IF pc = "done" THEN Len(all_valid_schedules) ELSE 0
    /\ req_pc' = "responded"
    /\ UNCHANGED course_ids
    /\ UNCHANGED gen_vars
    /\ UNCHANGED hist_vars
    /\ UNCHANGED hc_vars

NextRequest ==
    \/ RespondNoCourses
    \/ RespondNotFound
    \/ CallGenerate
    \/ GenerateStep
    \/ Respond

SpecRequest == InitRequest /\ [][NextRequest]_vars

\* requests naming no course twice, over a cache whose only sections are A's
\* lecture 1 and A's discussion 4, which starts when lecture 1 ends
InitRequestNoFit ==
    /\ InitRequest
    /\ offered \subseteq {1, 4}
    /\ \A i, j \in DOMAIN course_ids : i # j => course_ids[i] # course_ids[j]

\* the handler is synchronous: a step that stays possible is taken
FairSpecRequest ==
    InitRequestNoFit /\ [][NextRequest]_vars /\ WF_vars(NextRequest)

GenIdle ==
    /\ courses_data = <<>>
    /\ offered = {}
    /\ max_schedules = 0
    /\ pc = "idle"
    /\ raised = "none"
    /\ all_lecture_combinations = <<>>
    /\ lecture_index = 0
    /\ lecture_combo = <<>>
    /\ variation = 0
    /\ current_schedule = <<>>
    /\ schedule_valid = TRUE
    /\ course_pos = 1
    /\ type_pos = 1
    /\ unplaced = {}
    /\ all_valid_schedules = <<>>
    /\ seen_combinations = {}
    /\ pull_count = <<>>
    /\ attempt_count = <<>>

InitConflict ==
    /\ section1 \in WellFormedSections
    /\ section2 \in WellFormedSections
    /\ result12 = "unset"
    /\ result21 = "unset"
    /\ GenIdle
    /\ ReqIdle

Evaluate12 ==
    /\ result12 = "unset"
    /\ result12' = has_time_conflict(section1, section2)
    /\ UNCHANGED <<section1, section2, result21>>
    /\ UNCHANGED gen_vars
    /\ UNCHANGED hist_vars
    /\ UNCHANGED req_vars

Evaluate21 ==
    /\ result21 = "unset"
    /\ result21' = has_time_conflict(section2, section1)
    /\ UNCHANGED <<section1, section2, result12>>
    /\ UNCHANGED gen_vars
    /\ UNCHANGED hist_vars
    /\ UNCHANGED req_vars

NextConflict == Evaluate12 \/ Evaluate21

SpecConflict == InitConflict /\ [][NextConflict]_vars

----------------------------------------------------------------------------
(* Properties *)

Returned == 1..Len(all_valid_schedules)

ConflictFree(schedule) ==
    \A i, j \in 1..Len(schedule) :
        i # j => has_time_conflict(Catalog[schedule[i]],
                                   Catalog[schedule[j]]) = "False"

\* C1: every schedule accumulated, and so every schedule returned, is
\* conflict-free: has_time_conflict is false for every pair of its entries.
C1_SchedulesConflictFree ==
    \A k \in Returned : ConflictFree(all_valid_schedules[k])

\* C1 witness: a returned schedule that holds lectures and attached secondary
\* sections of two courses.
C1_Witness ==
    /\ pc = "done"
    /\ \E k \in Returned :
          /\ Len(all_valid_schedules[k]) >= 4
          /\ \E i \in 1..Len(all_valid_schedules[k]) :
                Catalog[all_valid_schedules[k][i]].type # "Lec"

\* C2: generate_diverse_schedules comes to an end (it returns; leaving by an
\* exception is not counted against it here) for every input, in particular
\* when fewer than max_schedules distinct schedules exist.
C2_Terminates == <>(pc = "done" \/ pc = "error")

\* C3: the number of accumulated schedules never exceeds max_schedules.
C3_CapRespected == Len(all_valid_schedules) <= max_schedules

\* C3 witness: the variation loop was left by its break with the cap reached.
C3_Witness ==
    /\ pc = "while"
    /\ variation \in 1..(Variations - 1)
    /\ max_schedules > 0
    /\ Len(all_valid_schedules) = max_schedules

\* C4: no two accumulated schedules have the same dedup key.
C4_NoDuplicateKeys ==
    \A i, j \in Returned :
        i # j => schedule_key(all_valid_schedules[i]) #
                 schedule_key(all_valid_schedules[j])

\* C4 witness: a valid attempt ended whose key had been seen, and it was not
\* recorded again.
C4_Witness ==
    /\ pc = "for"
    /\ schedule_valid
    /\ all_valid_schedules # <<>>
    /\ schedule_key(current_schedule) \in seen_combinations
    /\ current_schedule # all_valid_schedules[Len(all_valid_schedules)]

\* C5 (as claimed): an attempt is marked invalid only when a Discussion
\* category could not be placed; an unplaced Lab or Quiz leaves it valid.
C5_OnlyDiscussionFails ==
    ~schedule_valid => \E c \in Range(courses_data) : <<c, "Dis">> \in unplaced

\* C5 (amended): an attempt in which a Discussion, Lab or Quiz category of a
\* course could not be placed is marked invalid, whatever the category, and
\* its schedule is not recorded.
C5_AnyUnplacedCategoryFails ==
    unplaced # {} =>
        /\ ~schedule_valid
        /\ \A k \in Returned : all_valid_schedules[k] # current_schedule

\* C5 witness: an attempt has ended in which a Lab could not be placed while
\* no Discussion was unplaced.
C5_Witness ==
    /\ pc = "for"
    /\ \E c \in Range(courses_data) : <<c, "Lab">> \in unplaced
    /\ \A c \in Range(courses_data) : <<c, "Dis">> \notin unplaced

DisOf(schedule, course) ==
    {k \in 1..Len(schedule) : /\ Catalog[schedule[k]].type = "Dis"
                              /\ Catalog[schedule[k]].course_id = course}

\* C6: every accumulated schedule holds exactly one Discussion section of each
\* course that has one; and when a course has a single Discussion section,
\* no lecture of an accumulated schedule conflicts with it.
C6_OneDiscussionPerCourse ==
    \A k \in Returned : \A c \in Range(courses_data) :
        LET dis == course_sections(c, "Dis")
            schedule == all_valid_schedules[k]
        IN  /\ dis # <<>> => Cardinality(DisOf(schedule, c)) = 1
            /\ Len(dis) = 1 =>
                 \A i \in 1..Len(schedule) :
                    Catalog[schedule[i]].type = "Lec" =>
                        has_time_conflict(Catalog[dis[1]],
                                          Catalog[schedule[i]]) = "False"

\* C6 witness: the function returned schedules for a course whose only
\* Discussion section conflicts with one of its lectures.
C6_Witness ==
    /\ pc = "done"
    /\ all_valid_schedules # <<>>
    /\ \E c \in Range(courses_data) :
          /\ Len(course_sections(c, "Dis")) = 1
          /\ \E l \in Range(course_sections(c, "Lec")) :
                has_time_conflict(Catalog[course_sections(c, "Dis")[1]],
                                  Catalog[l]) = "True"

HasLectures(course) == course_sections(course, "Lec") # <<>>

\* C7: when some requested course has no Lecture section and another has, the
\* candidate space is the product over the courses that have lectures, and
\* no exception ends the generation.
C7_LecturelessCourseExcluded ==
    ( /\ pc # "start"
      /\ \E c \in Range(courses_data) : ~HasLectures(c)
      /\ \E c \in Range(courses_data) : HasLectures(c) )
    => /\ Range(all_lecture_combinations) =
              Range(Product(LectureLists(SelectSeq(courses_data, HasLectures),
                                         offered)))
       /\ raised # "IndexError"

Minutes(time_str) == time_str.h * 60 + time_str.m

\* C8: has_time_conflict(a, b) is true exactly when both sections have a
\* start time, share a day and a.start <= b.end and b.start <= a.end; it is
\* false otherwise (a missing or TBA start time, or no common day).
C8_ConflictIffOverlap ==
    result12 # "unset" =>
        result12 =
            IF /\ section1.start_time.kind = "hm"
               /\ section2.start_time.kind = "hm"
               /\ \E i \in DOMAIN section1.day, j \in DOMAIN section2.day :
                      section1.day[i] = section2.day[j]
               /\ Minutes(section1.start_time) <= Minutes(section2.end_time)
               /\ Minutes(section2.start_time) <= Minutes(section1.end_time)
            THEN "True" ELSE "False"

\* C9: has_time_conflict(a, b) and has_time_conflict(b, a) have the same
\* outcome for all sections a and b, TBA sections included.
C9_ConflictSymmetric ==
    (result12 # "unset" /\ result21 # "unset") => result12 = result21

\* C9 witness: both orders were evaluated on two sections that share a day,
\* the first ending exactly when the second starts.
C9_Witness ==
    /\ result12 = "True"
    /\ result21 = "True"
    /\ section1.end_time = section2.start_time
    /\ section1.start_time # section2.start_time

IsExample ==
    /\ courses_data = ExampleCourses
    /\ offered = ExampleOffered
    /\ max_schedules = 5

\* C10: on the example scenario with max_schedules = 5 the function returns
\* exactly the two schedules {1, 3, 6} and {2, 3, 6}.
C10_ExampleReturnsTwo ==
    IsExample =>
        <>( /\ pc = "done"
            /\ Len(all_valid_schedules) = 2
            /\ {schedule_key(all_valid_schedules[k]) : k \in Returned} =
                   {<<1, 3, 6>>, <<2, 3, 6>>} )

LecturesOf(schedule, course) ==
    {k \in 1..Len(schedule) : /\ Catalog[schedule[k]].type = "Lec"
                              /\ Catalog[schedule[k]].course_id = course}

\* C12: every accumulated schedule holds exactly one Lecture section of each
\* course passed to the function, and it is one of that course's lectures.
C12_OneLecturePerCourse ==
    \A k \in Returned : \A c \in Range(courses_data) :
        /\ Cardinality(LecturesOf(all_valid_schedules[k], c)) = 1
        /\ \A i \in LecturesOf(all_valid_schedules[k], c) :
              all_valid_schedules[k][i] \in Range(course_sections(c, "Lec"))

SecondaryOf(schedule, course, section_type) ==
    {k \in 1..Len(schedule) : /\ Catalog[schedule[k]].type = section_type
                              /\ Catalog[schedule[k]].course_id = course}

\* C17: every accumulated schedule holds, for every course and every one of
\* Dis, Lab, Qz in which the course has a section, exactly one section of that
\* category of that course; and an attempt in which a category could not be
\* placed is never recorded, whatever was attached for later courses.
C17_OneSectionPerCategory ==
    /\ \A k \in Returned : \A c \in Range(courses_data) :
          \A ty \in Range(SecondaryTypes) :
              course_sections(c, ty) # <<>> =>
                  /\ Cardinality(SecondaryOf(all_valid_schedules[k], c, ty)) = 1
                  /\ \A i \in SecondaryOf(all_valid_schedules[k], c, ty) :
                        all_valid_schedules[k][i] \in
                            Range(course_sections(c, ty))
    /\ (pc \in {"for", "while", "done"} /\ unplaced # {}) =>
          \A k \in Returned :
              schedule_key(all_valid_schedules[k]) #
                  schedule_key(current_schedule)

\* C17 witness: an attempt has ended in which a category of the first course
\* could not be placed and a section of the second course was attached after
\* that.
C17_Witness ==
    /\ pc = "for"
    /\ Len(CourseKeys(courses_data)) = 2
    /\ \E ty \in Range(SecondaryTypes) :
          <<CourseKeys(courses_data)[1], ty>> \in unplaced
    /\ \E i \in 1..Len(current_schedule) :
          /\ Catalog[current_schedule[i]].type # "Lec"
          /\ Catalog[current_schedule[i]].course_id =
                 CourseKeys(courses_data)[2]

\* C15: within one run the shuffled list of lecture combinations is walked at
\* most once, without wraparound: no position of the list is pulled more than
\* once, so a combination whose lectures conflict is never validated again.
C15_NoWraparound ==
    \A k \in DOMAIN pull_count : pull_count[k] <= 1

\* C16: within one run the assembly of secondary sections is attempted at most
\* Variations (3) times for each lecture combination, and while an attempt has
\* attached nothing yet the schedule holds the combination's lectures alone.
C16_AtMostThreeAttempts ==
    /\ \A k \in DOMAIN attempt_count : attempt_count[k] <= Variations
    /\ (pc = "attach" /\ course_pos = 1 /\ type_pos = 1) =>
           current_schedule = lecture_combo

\* C14: a section with malformed time data (an end_time before its start_time,
\* a start_time without an end_time) makes the call fail with InvalidInput
\* before any search step: no lecture combination is pulled, and the call ends
\* in no other way than with that error.
C14_MalformedFailsFast ==
    (offered \cap MalformedIds # {}) =>
        /\ \A k \in DOMAIN pull_count : pull_count[k] = 0
        /\ pc \in {"done", "error"} => raised = "InvalidInput"

\* the call has walked the whole shuffled list, every combination pulled and
\* dealt with, and has recorded no schedule
WalkedWithoutSchedule ==
    /\ pc = "while"
    /\ pull_count # <<>>
    /\ \A k \in DOMAIN pull_count : pull_count[k] >= 1
    /\ all_valid_schedules = <<>>

\* C11: when the search has gone through every lecture combination and found
\* no conflict-free schedule (the lectures conflict, or every assembly attempt
\* fails), the request is answered as a success (status 200) with count 0; it
\* is not raised as an error.
C11_ZeroSchedulesIsSuccess ==
    (req_pc = "generating" /\ WalkedWithoutSchedule)
        ~> (req_pc = "responded" /\ status = 200 /\ count = 0)

\* C13: a requested course that the cache does not resolve is left out and the
\* resolvable ones, in the order of the request, are what generation runs on;
\* the request is answered with an error (400 or 404) without any generation
\* exactly when the list is empty or none of its courses resolves.
C13_UnresolvedOmitted ==
    LET resolved == SelectSeq(course_ids, course_data_found)
    IN  /\ req_pc = "received" => (status = 0 /\ pc = "idle")
        /\ req_pc = "generating" =>
              (resolved # <<>> /\ courses_data = resolved /\ status = 0)
        /\ (req_pc = "responded" /\ resolved # <<>>) =>
              (courses_data = resolved /\ status \in {200, 500})
        /\ (req_pc = "responded" /\ resolved = <<>>) =>
              (status \in {400, 404} /\ pc = "idle" /\ courses_data = <<>>)

C13_Witness ==
    /\ req_pc = "generating"
    /\ courses_data # <<>>
    /\ Len(courses_data) < Len(course_ids)
    /\ \E k \in DOMAIN pull_count : pull_count[k] > 0

====
